---- MODULE Spec2Model ----
(***************************************************************************)
(* Client-side document analysis lifecycle of the insurance analyzer:      *)
(* the home page (Index), the analysis page (Analysis) with its upload     *)
(* mutation and its status / progress / findings queries, and the chat     *)
(* panel (ChatPanel).  One state machine; Spec drives the two pages,       *)
(* ChatSpec drives the chat panel of a completed analysis.                 *)
(*                                                                         *)
(* Strings that the code inspects (content types, chat input) are          *)
(* sequences of one-character strings, so that includes() and trim() are   *)
(* computed and not assumed.                                               *)
(***************************************************************************)
EXTENDS Integers, Sequences, FiniteSets, TLC

\* ------------------------------------------------------------------ bounds
\* POST /ingest requests issued in one behaviour.
MaxUploads == 2
\* Requests counted after a terminal status was observed.
MaxPostTerminal == 2
\* Milliseconds Date.now() advances in one behaviour.
MaxNow == 2
\* Length of the chat transcript.
MaxMessages == 5
\* Length of the process-step log.
MaxSteps == 4
\* Findings the service returns for one document, in the list view.
MaxFindings == 21
\* Page indices (0-based) a page is asked for.
MaxPageIndex == 3
\* Requests whose URL is recorded.
MaxSent == 2

\* ------------------------------------------------- constants of the program
TenMB == 10 * 1024 * 1024
\* useQuery({ retry: 3 }) and the library default for queries.
QueryRetry == 3
\* useMutation without a retry option: the library default for mutations.
MutationRetry == 0
\* const [itemsPerPage] = useState(10)
ItemsPerPage == 10

NoFile == [name |-> "none"]
NoDoc == 0
NoFinding == [id |-> 0]
NoReq == [kind |-> "none"]
NoToast == [title |-> "none"]
NoData == "undefined"
NoProgress == [status |-> "undefined", progress |-> 0]
NoDetail == "no-detail"
\* import.meta.env.VITE_API_URL of a build without that variable.
NoEnv == "undefined"

\* ---------------------------------------------------------------- strings
PdfWord == <<"p", "d", "f">>

\* String.prototype.includes
Includes(s, sub) ==
    \E i \in 1..(Len(s) - Len(sub) + 1) : SubSeq(s, i, i + Len(sub) - 1) = sub

RECURSIVE TrimLeft(_)
TrimLeft(s) == IF s # <<>> /\ Head(s) = " " THEN TrimLeft(Tail(s)) ELSE s

RECURSIVE TrimRight(_)
TrimRight(s) ==
    IF s # <<>> /\ s[Len(s)] = " " THEN TrimRight(SubSeq(s, 1, Len(s) - 1)) ELSE s

\* String.prototype.trim
Trim(s) == TrimRight(TrimLeft(s))

\* ------------------------------------------------------------------ inputs
\* Files a user can pick: content type and size are what the code looks at.
Files ==
    { [name |-> "exact.pdf",  type |-> <<"a", "/", "p", "d", "f">>, size |-> TenMB],
      [name |-> "big.pdf",    type |-> <<"a", "/", "p", "d", "f">>, size |-> TenMB + 1],
      [name |-> "photo.png",  type |-> <<"i", "/", "p", "n", "g">>, size |-> 1024],
      [name |-> "upper.PDF",  type |-> <<"a", "/", "P", "D", "F">>, size |-> 1024] }

\* Page counts the service reports for an ingested document.
PageCounts == {12}

\* Errors of a failed POST /ingest: error.response?.data?.detail and error.message.
UploadErrors ==
    { [detail |-> "File too large for server", message |-> "Request failed with status code 413"],
      [detail |-> "",       message |-> "Request failed with status code 500"],
      [detail |-> NoDetail, message |-> ""] }

ServerStatuses == {"pending", "analyzing", "completed", "failed"}
TerminalStatuses == {"completed", "failed"}

\* Recorded for an ingested document whose page was left: no request names it
\* again, so its job is not followed any further.
Unwatched == "unwatched"

\* Findings the service holds for document d (ids are unique across documents).
ServerFindings(d) ==
    << [id |-> 10 * d + 1, category |-> "EXCLUSION",  page_num |-> 3],
       [id |-> 10 * d + 2, category |-> "DEDUCTIBLE", page_num |-> 5] >>

\* Progress percentage the service reports in a given status.
ServerProgress(st) ==
    CASE st = "pending"   -> 10
      [] st = "analyzing" -> 40
      [] st = "completed" -> 100
      [] OTHER            -> 40

\* Chat inputs a user can type.
ChatInputs == { <<>>, <<" ">>, <<"w", "h", "y">>, <<" ", "o", "k", " ">> }

\* JavaScript truthiness of an optional string.
Truthy(s) == s # NoDetail /\ s # ""

VARIABLES
    page,              \* route shown: "home" (Index) or "analysis" (Analysis)
    storedFile,        \* fileState's module-level currentFile
    analysisState,     \* Analysis: documentId, filename, isUploading, isAnalyzing
    currentFile,       \* Analysis: currentFile
    selectedFinding,   \* Analysis: selectedFinding, the finding prop of ChatPanel
    selectedCategory,  \* Analysis: selectedCategory
    currentPage,       \* Analysis: currentPage
    processSteps,      \* Analysis: processSteps
    analysisProgress,  \* Analysis: analysisProgress
    uploadReq,         \* POST /ingest in flight for the mounted Analysis, or NoReq
    staleUploads,      \* POST /ingest in flight whose Analysis was unmounted
    orphans,           \* polls in flight whose Analysis was unmounted: their kinds
    apiUrl,            \* import.meta.env.VITE_API_URL
    sent,              \* URLs of the requests sent, as far as they are recorded
    statusQ,           \* useQuery ['analysis-status', documentId]
    progressQ,         \* useQuery ['progress', documentId]
    findingsQ,         \* useQuery ['findings', documentId]
    docStatus,         \* the service: status of each ingested document
    toast,             \* the last notification shown
    hist,              \* request counters and records (observation only)
    inputValue,        \* ChatPanel: inputValue
    messages,          \* ChatPanel: messages
    currentFindingId,  \* ChatPanel: currentFindingId
    isLoading,         \* ChatPanel: isLoading
    chatReqs,          \* POST /findings/{id}/chat requests in flight
    now                \* Date.now()

homeVars == <<page, storedFile>>
listVars == <<selectedCategory, currentPage>>
analysisVars == <<analysisState, currentFile, selectedFinding, listVars, processSteps, analysisProgress>>
urlVars == <<apiUrl, sent>>
netVars == <<uploadReq, staleUploads, orphans, urlVars, statusQ, progressQ, findingsQ, docStatus>>
chatVars == <<inputValue, messages, currentFindingId, isLoading, chatReqs, now>>
vars == <<homeVars, analysisVars, netVars, toast, hist, chatVars>>

\* ------------------------------------------------------------ initial state
AnalysisInitial ==
    [documentId |-> NoDoc, filename |-> "none", isUploading |-> FALSE, isAnalyzing |-> FALSE]

\* A query with no data that is not fetching.  resp is the answer the service
\* gave to the request in flight.
IdleStatusQ == [data |-> NoData, fetching |-> FALSE, resp |-> NoData]
IdleProgressQ == [data |-> NoProgress, fetching |-> FALSE, resp |-> NoData]
IdleFindingsQ == [data |-> <<>>, fetching |-> FALSE, error |-> FALSE]

HistInitial ==
    [ submits |-> 0,            \* submits that passed validation
      ingests |-> 0,            \* POST /ingest requests issued
      postTermStatus |-> 0,     \* GET /analysis issued with a terminal status held
      postTermProgress |-> 0,   \* GET /progress issued with a terminal status held
      findingsAt |-> {},        \* whether completed was held when GET /findings was issued
      discards |-> 0 ]          \* answers of polls of a page left that arrived under this page
                                \* (the four above: for the page mounted)

ChatInitial ==
    /\ inputValue = <<>>
    /\ messages = <<>>
    /\ currentFindingId = 0
    /\ isLoading = FALSE
    /\ chatReqs = <<>>
    /\ now = 0

Init ==
    /\ page = "home"
    /\ storedFile = NoFile
    /\ analysisState = AnalysisInitial
    /\ currentFile = NoFile
    /\ selectedFinding = NoFinding
    /\ selectedCategory = "all"
    /\ currentPage = 1
    /\ processSteps = <<>>
    /\ analysisProgress = 0
    /\ uploadReq = NoReq
    /\ staleUploads = 0
    /\ orphans = {}
    /\ apiUrl = NoEnv
    /\ sent = <<>>
    /\ statusQ = IdleStatusQ
    /\ progressQ = IdleProgressQ
    /\ findingsQ = IdleFindingsQ
    /\ docStatus = [d \in 1..MaxUploads |-> "none"]
    /\ toast = NoToast
    /\ hist = HistInitial
    /\ ChatInitial

\* ------------------------------------------------------------ process steps
Step(id, status, pages) == [id |-> id, status |-> status, pages |-> pages]

\* addProcessStep
AddStep(steps, step) == Append(steps, step)

\* updateProcessStep: every step with that id takes the new status.
UpdateStep(steps, id, status) ==
    [i \in 1..Len(steps) |->
        IF steps[i].id = id THEN [steps[i] EXCEPT !.status = status] ELSE steps[i]]

Inc(n, max) == IF n < max THEN n + 1 ELSE max

\* --------------------------------------------------------------- validation
\* Variant of Validate: the size check is missing.
ValidateNoSizeLimit(file) ==
    IF ~Includes(file.type, PdfWord) THEN "type" ELSE "ok"

\* The two checks of handleFileUpload, in the order of the code.
Validate(file) ==
    IF ~Includes(file.type, PdfWord) THEN "type"
    ELSE IF file.size > TenMB THEN "size"
    ELSE "ok"

RejectToast(v) ==
    IF v = "type"
    THEN [title |-> "Invalid file type", description |-> "Please upload a PDF file"]
    ELSE [title |-> "File too large", description |-> "Please upload a file smaller than 10MB"]

\* ------------------------------------------------------ Analysis: the upload
\* uploadMutation.mutate(file): mutationFn adds the upload-start step and posts
\* the file.  h is the request record the caller has accounted its submit in.
Mutate(file, h) ==
    /\ uploadReq' = [kind |-> "ingest", file |-> file, failures |-> 0]
    /\ processSteps' = AddStep(<<>>, Step("upload-start", "in-progress", 0))
    /\ hist' = [h EXCEPT !.ingests = @ + 1]

\* handleFileUpload(file) of the Analysis page whose analysisState is prev.
HandleFileUpload(prev, file, h) ==
    /\ analysisProgress' = 0
    /\ selectedFinding' = NoFinding
    /\ currentFile' = file
    /\ IF Validate(file) = "ok"
       THEN /\ analysisState' = [prev EXCEPT !.isUploading = TRUE]
            /\ Mutate(file, h)
            /\ toast' = toast
       ELSE /\ analysisState' = prev
            /\ processSteps' = <<>>
            /\ uploadReq' = uploadReq
            /\ toast' = RejectToast(Validate(file))
            /\ hist' = h

\* Variant of MountAnalysis: the auto-start effect does not clear fileState.
MountAnalysisKeepFile(handedOver, h) ==
    /\ page' = "analysis"
    /\ selectedCategory' = "all"
    /\ currentPage' = 1
    /\ storedFile' = handedOver
    /\ IF handedOver # NoFile
       THEN HandleFileUpload(AnalysisInitial, handedOver, h)
       ELSE /\ analysisState' = AnalysisInitial
            /\ currentFile' = NoFile
            /\ selectedFinding' = NoFinding
            /\ processSteps' = <<>>
            /\ analysisProgress' = 0
            /\ hist' = h
            /\ UNCHANGED <<uploadReq, toast>>

\* Mounting Analysis: fresh component state, then the auto-start effect, which
\* uploads the file handed over through fileState and clears it.
MountAnalysis(handedOver, h) ==
    /\ page' = "analysis"
    /\ selectedCategory' = "all"
    /\ currentPage' = 1
    /\ IF handedOver # NoFile
       THEN /\ HandleFileUpload(AnalysisInitial, handedOver, h)
            /\ storedFile' = NoFile
       ELSE /\ analysisState' = AnalysisInitial
            /\ currentFile' = NoFile
            /\ selectedFinding' = NoFinding
            /\ processSteps' = <<>>
            /\ analysisProgress' = 0
            /\ storedFile' = handedOver
            /\ hist' = h
            /\ UNCHANGED <<uploadReq, toast>>

\* Index.handleFileUpload: validate, store the file, navigate to /analysis.
HomeSubmit(file) ==
    /\ page = "home"
    /\ IF Validate(file) = "ok"
       THEN /\ hist.ingests < MaxUploads
            /\ MountAnalysis(file, [hist EXCEPT !.submits = @ + 1])
       ELSE /\ toast' = RejectToast(Validate(file))
            /\ UNCHANGED <<homeVars, analysisVars, uploadReq, hist>>
    /\ UNCHANGED <<staleUploads, orphans, urlVars, statusQ, progressQ, findingsQ, docStatus, chatVars>>

\* Index: the button that navigates to /analysis without a file.
GoToAnalysis ==
    /\ page = "home"
    /\ storedFile # NoFile => hist.ingests < MaxUploads
    /\ MountAnalysis(storedFile, hist)
    /\ UNCHANGED <<staleUploads, orphans, urlVars, statusQ, progressQ, findingsQ, docStatus, chatVars>>

\* The upload interface is rendered only without a document and a current file.
UploadInterfaceShown ==
    page = "analysis" /\ analysisState.documentId = NoDoc /\ currentFile = NoFile

\* Analysis: drop or file-input change on the upload interface.
AnalysisSubmit(file) ==
    /\ UploadInterfaceShown
    /\ Validate(file) = "ok" => hist.ingests < MaxUploads
    /\ HandleFileUpload(analysisState, file,
                        IF Validate(file) = "ok" THEN [hist EXCEPT !.submits = @ + 1] ELSE hist)
    /\ UNCHANGED <<homeVars, listVars, staleUploads, orphans, urlVars, statusQ, progressQ, findingsQ, docStatus,
                   chatVars>>

\* A GET /analysis/{d} leaves; the service answers with the status of that moment.
IssueStatus(q, st) == [q EXCEPT !.fetching = TRUE, !.resp = st]

\* A GET /progress/{d} leaves.
IssueProgress(q, st) == [q EXCEPT !.fetching = TRUE, !.resp = st]

\* A GET /findings/{d} leaves.
IssueFindings(q) == [q EXCEPT !.fetching = TRUE]

\* The document the service creates for the next ingest.
NextDoc == CHOOSE d \in 1..(MaxUploads + 1) : \A e \in 1..MaxUploads : docStatus[e] # "none" <=> e < d

\* Variant of UploadErrorMessage: the server's detail is not looked at.
UploadErrorMessageNoDetail(err) ==
    IF Truthy(err.message) THEN err.message ELSE "Failed to upload document"

\* error.response?.data?.detail || error.message || "Failed to upload document"
UploadErrorMessage(err) ==
    IF Truthy(err.detail) THEN err.detail
    ELSE IF Truthy(err.message) THEN err.message
    ELSE "Failed to upload document"

\* Variant of UploadSuccess: onSuccess records the document but leaves the
\* phase flags as they were.
UploadSuccessKeepsPhase(pages) ==
    /\ uploadReq # NoReq
    /\ docStatus' = [docStatus EXCEPT ![NextDoc] = "pending"]
    /\ uploadReq' = NoReq
    /\ processSteps' =
         AddStep(AddStep(UpdateStep(processSteps, "upload-start", "completed"),
                         Step("text-extraction", "completed", pages)),
                 Step("analysis", "in-progress", 0))
    /\ analysisProgress' = 25
    /\ analysisState' = [analysisState EXCEPT !.documentId = NextDoc,
                                              !.filename = uploadReq.file.name]
    /\ toast' = [title |-> "Upload successful!",
                 description |-> "Your document is being analyzed. This may take a few minutes."]
    /\ statusQ' = IssueStatus(IdleStatusQ, "pending")
    /\ progressQ' = IssueProgress(IdleProgressQ, "pending")
    /\ UNCHANGED <<homeVars, currentFile, selectedFinding, listVars, staleUploads, orphans, urlVars, findingsQ, hist,
                   chatVars>>

\* Variant of UploadSuccess: onSuccess enters the analyzing phase without
\* leaving the uploading phase.
UploadSuccessStillUploading(pages) ==
    /\ uploadReq # NoReq
    /\ docStatus' = [docStatus EXCEPT ![NextDoc] = "pending"]
    /\ uploadReq' = NoReq
    /\ processSteps' =
         AddStep(AddStep(UpdateStep(processSteps, "upload-start", "completed"),
                         Step("text-extraction", "completed", pages)),
                 Step("analysis", "in-progress", 0))
    /\ analysisProgress' = 25
    /\ analysisState' = [analysisState EXCEPT !.documentId = NextDoc,
                                              !.filename = uploadReq.file.name,
                                              !.isAnalyzing = TRUE]
    /\ toast' = [title |-> "Upload successful!",
                 description |-> "Your document is being analyzed. This may take a few minutes."]
    /\ statusQ' = IssueStatus(IdleStatusQ, "pending")
    /\ progressQ' = IssueProgress(IdleProgressQ, "pending")
    /\ UNCHANGED <<homeVars, currentFile, selectedFinding, listVars, staleUploads, orphans, urlVars, findingsQ, hist,
                   chatVars>>

\* Variant of UploadSuccess: onSuccess records the id of the first document
\* instead of the one the answer names.
UploadSuccessFirstDocument(pages) ==
    /\ uploadReq # NoReq
    /\ docStatus' = [docStatus EXCEPT ![NextDoc] = "pending"]
    /\ uploadReq' = NoReq
    /\ processSteps' =
         AddStep(AddStep(UpdateStep(processSteps, "upload-start", "completed"),
                         Step("text-extraction", "completed", pages)),
                 Step("analysis", "in-progress", 0))
    /\ analysisProgress' = 25
    /\ analysisState' = [analysisState EXCEPT !.documentId = 1,
                                              !.filename = uploadReq.file.name,
                                              !.isUploading = FALSE,
                                              !.isAnalyzing = TRUE]
    /\ toast' = [title |-> "Upload successful!",
                 description |-> "Your document is being analyzed. This may take a few minutes."]
    /\ statusQ' = IssueStatus(IdleStatusQ, "pending")
    /\ progressQ' = IssueProgress(IdleProgressQ, "pending")
    /\ UNCHANGED <<homeVars, currentFile, selectedFinding, listVars, staleUploads, orphans, urlVars, findingsQ, hist,
                   chatVars>>

\* POST /ingest answered: mutationFn records the steps, onSuccess the document;
\* the status and progress queries, now enabled, fetch at once.
UploadSuccess(pages) ==
    /\ uploadReq # NoReq
    /\ docStatus' = [docStatus EXCEPT ![NextDoc] = "pending"]
    /\ uploadReq' = NoReq
    /\ processSteps' =
         AddStep(AddStep(UpdateStep(processSteps, "upload-start", "completed"),
                         Step("text-extraction", "completed", pages)),
                 Step("analysis", "in-progress", 0))
    /\ analysisProgress' = 25
    /\ analysisState' = [analysisState EXCEPT !.documentId = NextDoc,
                                              !.filename = uploadReq.file.name,
                                              !.isUploading = FALSE,
                                              !.isAnalyzing = TRUE]
    /\ toast' = [title |-> "Upload successful!",
                 description |-> "Your document is being analyzed. This may take a few minutes."]
    /\ statusQ' = IssueStatus(IdleStatusQ, "pending")
    /\ progressQ' = IssueProgress(IdleProgressQ, "pending")
    /\ UNCHANGED <<homeVars, currentFile, selectedFinding, listVars, staleUploads, orphans, urlVars, findingsQ, hist,
                   chatVars>>

\* POST /ingest failed: retried while the mutation's retry count allows, then
\* the catch block marks the step and onError leaves the uploading phase.
UploadFailure(err) ==
    /\ uploadReq # NoReq
    /\ IF uploadReq.failures < MutationRetry
       THEN /\ uploadReq' = [uploadReq EXCEPT !.failures = @ + 1]
            /\ hist' = [hist EXCEPT !.ingests = @ + 1]
            /\ UNCHANGED <<processSteps, analysisState, toast>>
       ELSE /\ uploadReq' = NoReq
            /\ processSteps' = UpdateStep(processSteps, "upload-start", "error")
            /\ analysisState' = [analysisState EXCEPT !.isUploading = FALSE]
            /\ toast' = [title |-> "Upload failed", description |-> UploadErrorMessage(err)]
            /\ hist' = hist
    /\ UNCHANGED <<homeVars, currentFile, selectedFinding, listVars, analysisProgress, staleUploads, orphans, urlVars,
                   statusQ, progressQ, findingsQ, docStatus, chatVars>>

\* A POST /ingest whose page was left completes: the service still ingests the
\* file, the callbacks set state of an unmounted component, which does nothing,
\* and only the notification shows.
StaleUploadDone(ok, err) ==
    /\ staleUploads > 0
    /\ staleUploads' = staleUploads - 1
    /\ docStatus' = IF ok THEN [docStatus EXCEPT ![NextDoc] = Unwatched] ELSE docStatus
    /\ toast' = IF ok THEN [title |-> "Upload successful!",
                            description |-> "Your document is being analyzed. This may take a few minutes."]
                ELSE [title |-> "Upload failed", description |-> UploadErrorMessage(err)]
    /\ UNCHANGED <<homeVars, analysisVars, uploadReq, orphans, urlVars, statusQ, progressQ, findingsQ,
                   hist, chatVars>>

\* ------------------------------------------------------------- the service
\* The background job of a document: pending, analyzing, then completed or failed.
\* Only the job of the document the client watches is followed: no request
\* ever names another document again.
ServerAdvance(d, st) ==
    /\ d = analysisState.documentId
    /\ \/ docStatus[d] = "pending" /\ st \in {"analyzing", "completed", "failed"}
       \/ docStatus[d] = "analyzing" /\ st \in TerminalStatuses
    /\ docStatus' = [docStatus EXCEPT ![d] = st]
    /\ UNCHANGED <<homeVars, analysisVars, uploadReq, staleUploads, orphans, urlVars, statusQ, progressQ,
                   findingsQ, toast, hist, chatVars>>

\* GET /findings/{d} as the service answers it now.
FindingsOf(d) == IF docStatus[d] = "completed" THEN ServerFindings(d) ELSE <<>>

\* --------------------------------------------------------------- the queries
\* enabled: !!analysisState.documentId
StatusEnabled == page = "analysis" /\ analysisState.documentId # NoDoc

\* enabled: !!analysisState.documentId && analysisStatus?.status !== 'completed'
ProgressEnabled == StatusEnabled /\ statusQ.data # "completed"

\* enabled: !!analysisState.documentId && analysisStatus?.status === 'completed'
FindingsEnabled == StatusEnabled /\ statusQ.data = "completed"

\* Accounting of a status, progress or findings request issued while held is
\* the status the client holds.
CountStatus(h, held) ==
    IF held \in TerminalStatuses
    THEN [h EXCEPT !.postTermStatus = Inc(@, MaxPostTerminal)] ELSE h
CountProgress(h, held) ==
    IF held \in TerminalStatuses
    THEN [h EXCEPT !.postTermProgress = Inc(@, MaxPostTerminal)] ELSE h
CountFindings(h, held) ==
    [h EXCEPT !.findingsAt = @ \cup {IF held = "completed" THEN "completed" ELSE "not completed"}]

\* refetchInterval: 2000 of the status query; a tick while a fetch is in
\* flight joins that fetch.
StatusTick ==
    /\ StatusEnabled
    /\ ~statusQ.fetching
    /\ statusQ' = IssueStatus(statusQ, docStatus[analysisState.documentId])
    /\ hist' = CountStatus(hist, statusQ.data)
    /\ UNCHANGED <<homeVars, analysisVars, uploadReq, staleUploads, orphans, urlVars, progressQ, findingsQ,
                   docStatus, toast, chatVars>>

\* Variant of StatusEffect: a status that is neither pending nor analyzing nor
\* completed counts as a failure.
StatusEffectUnknownFails(st) ==
    IF st = "completed"
    THEN /\ analysisProgress' = 100
         /\ processSteps' = UpdateStep(processSteps, "analysis", "completed")
         /\ analysisState' = [analysisState EXCEPT !.isAnalyzing = FALSE]
    ELSE IF st \notin {"pending", "analyzing"}
    THEN /\ analysisProgress' = analysisProgress
         /\ processSteps' = UpdateStep(processSteps, "analysis", "error")
         /\ analysisState' = [analysisState EXCEPT !.isAnalyzing = FALSE]
    ELSE UNCHANGED <<analysisProgress, processSteps, analysisState>>

\* The effect on analysisStatus (it runs when the data changed).
StatusEffect(st) ==
    IF st = "completed"
    THEN /\ analysisProgress' = 100
         /\ processSteps' = UpdateStep(processSteps, "analysis", "completed")
         /\ analysisState' = [analysisState EXCEPT !.isAnalyzing = FALSE]
    ELSE IF st = "failed"
    THEN /\ analysisProgress' = analysisProgress
         /\ processSteps' = UpdateStep(processSteps, "analysis", "error")
         /\ analysisState' = [analysisState EXCEPT !.isAnalyzing = FALSE]
    ELSE UNCHANGED <<analysisProgress, processSteps, analysisState>>

\* GET /analysis/{d} answered.  The findings query fetches when this enables it.
StatusResponse ==
    /\ page = "analysis"
    /\ statusQ.fetching
    /\ statusQ' = [statusQ EXCEPT !.data = statusQ.resp, !.fetching = FALSE, !.resp = NoData]
    /\ IF statusQ.resp # statusQ.data
       THEN StatusEffect(statusQ.resp)
       ELSE UNCHANGED <<analysisProgress, processSteps, analysisState>>
    /\ IF statusQ.resp = "completed" /\ statusQ.data # "completed" /\ ~findingsQ.fetching
       THEN /\ findingsQ' = IssueFindings(findingsQ)
            /\ hist' = CountFindings(hist, "completed")
       ELSE UNCHANGED <<findingsQ, hist>>
    /\ UNCHANGED <<homeVars, currentFile, selectedFinding, listVars, uploadReq, staleUploads, orphans, urlVars, progressQ,
                   docStatus, toast, chatVars>>

\* GET /analysis/{d} failed, and so did its retries (the library retries a
\* failed fetch QueryRetry times): the fetch ends, the data held stays.
StatusFailure ==
    /\ page = "analysis"
    /\ statusQ.fetching
    /\ statusQ' = [statusQ EXCEPT !.fetching = FALSE, !.resp = NoData]
    /\ hist' = IF QueryRetry > 0 THEN CountStatus(hist, statusQ.data) ELSE hist
    /\ UNCHANGED <<homeVars, analysisVars, uploadReq, staleUploads, orphans, urlVars, progressQ, findingsQ,
                   docStatus, toast, chatVars>>

\* refetchInterval: 2000 of the progress query, while it is enabled.
ProgressTick ==
    /\ ProgressEnabled
    /\ ~progressQ.fetching
    /\ progressQ' = IssueProgress(progressQ, docStatus[analysisState.documentId])
    /\ hist' = CountProgress(hist, statusQ.data)
    /\ UNCHANGED <<homeVars, analysisVars, uploadReq, staleUploads, orphans, urlVars, statusQ, findingsQ,
                   docStatus, toast, chatVars>>

\* The effect on progressData.
ProgressEffect(st) ==
    /\ analysisProgress' = IF st = "completed" THEN 100 ELSE ServerProgress(st)
    /\ processSteps' =
         IF st \in {"analyzing", "pending"} THEN UpdateStep(processSteps, "analysis", "in-progress")
         ELSE IF st = "completed" THEN UpdateStep(processSteps, "analysis", "completed")
         ELSE IF st = "failed" THEN UpdateStep(processSteps, "analysis", "error")
         ELSE processSteps

\* Variant of ProgressResponse: both queries share one cache entry, so the
\* status of a progress answer also becomes the status held.
ProgressResponseSharedKey ==
    /\ page = "analysis"
    /\ progressQ.fetching
    /\ progressQ' = [progressQ EXCEPT
                       !.data = [status |-> progressQ.resp, progress |-> ServerProgress(progressQ.resp)],
                       !.fetching = FALSE, !.resp = NoData]
    /\ statusQ' = [statusQ EXCEPT !.data = progressQ.resp]
    /\ ProgressEffect(progressQ.resp)
    /\ UNCHANGED <<homeVars, analysisState, currentFile, selectedFinding, listVars, uploadReq, staleUploads, orphans, urlVars,
                   findingsQ, docStatus, toast, hist, chatVars>>

\* GET /progress/{d} answered; the observer takes the data also when disabled.
ProgressResponse ==
    /\ page = "analysis"
    /\ progressQ.fetching
    /\ progressQ' = [progressQ EXCEPT
                       !.data = [status |-> progressQ.resp, progress |-> ServerProgress(progressQ.resp)],
                       !.fetching = FALSE, !.resp = NoData]
    /\ ProgressEffect(progressQ.resp)
    /\ UNCHANGED <<homeVars, analysisState, currentFile, selectedFinding, listVars, uploadReq, staleUploads, orphans, urlVars,
                   statusQ, findingsQ, docStatus, toast, hist, chatVars>>

\* GET /progress/{d} failed, and so did its retries (retry: 3).
ProgressFailure ==
    /\ page = "analysis"
    /\ progressQ.fetching
    /\ progressQ' = [progressQ EXCEPT !.fetching = FALSE, !.resp = NoData]
    /\ hist' = IF QueryRetry > 0 THEN CountProgress(hist, statusQ.data) ELSE hist
    /\ UNCHANGED <<homeVars, analysisVars, uploadReq, staleUploads, orphans, urlVars, statusQ, findingsQ,
                   docStatus, toast, chatVars>>

\* GET /findings/{d} answered with the list got; the effect on findings logs a
\* non-empty list when the data changed.  Nothing else is set: the category
\* filter and the page number stay as they are.
FindingsAnswered(got) ==
    /\ page = "analysis"
    /\ findingsQ.fetching
    /\ findingsQ' = [findingsQ EXCEPT !.data = got, !.fetching = FALSE, !.error = FALSE]
    /\ IF got # findingsQ.data /\ Len(got) > 0
       THEN /\ Len(processSteps) < MaxSteps
            /\ processSteps' = AddStep(processSteps, Step("findings-loaded", "completed", 0))
       ELSE processSteps' = processSteps
    /\ UNCHANGED <<homeVars, analysisState, currentFile, selectedFinding, listVars, analysisProgress,
                   uploadReq, staleUploads, orphans, urlVars, statusQ, progressQ, docStatus, toast, hist, chatVars>>

\* GET /findings/{d} answered by the service of this model.
FindingsResponse == FindingsAnswered(FindingsOf(analysisState.documentId))

\* GET /findings/{d} failed, and so did its retries (retry: 3): findingsError
\* is set, and its effect logs it.
FindingsFailure ==
    /\ page = "analysis"
    /\ findingsQ.fetching
    /\ Len(processSteps) < MaxSteps
    /\ findingsQ' = [findingsQ EXCEPT !.fetching = FALSE, !.error = TRUE]
    /\ hist' = IF QueryRetry > 0 THEN CountFindings(hist, statusQ.data) ELSE hist
    /\ processSteps' = AddStep(processSteps, Step("findings-error", "error", 0))
    /\ UNCHANGED <<homeVars, analysisState, currentFile, selectedFinding, listVars, analysisProgress,
                   uploadReq, staleUploads, orphans, urlVars, statusQ, progressQ, docStatus, toast, chatVars>>

\* refetch() joins the fetch in flight of a query that holds no data yet.
JoinsFetch(q) == q.fetching /\ q.data = NoData

\* The refresh button of the results view: refetchStatus() and refetchFindings().
\* refetch() does not look at enabled; once the query holds data it abandons
\* the fetch in flight, whose request stays on the wire, and sends another.
ManualRefresh ==
    /\ page = "analysis"
    /\ ~UploadInterfaceShown
    /\ analysisState.documentId # NoDoc
    /\ statusQ' = IF JoinsFetch(statusQ) THEN statusQ
                  ELSE IssueStatus(statusQ, docStatus[analysisState.documentId])
    /\ findingsQ' = IssueFindings(findingsQ)
    /\ hist' = CountFindings(IF JoinsFetch(statusQ) THEN hist ELSE CountStatus(hist, statusQ.data),
                             statusQ.data)
    /\ UNCHANGED <<homeVars, analysisVars, uploadReq, staleUploads, orphans, urlVars, progressQ, docStatus,
                   toast, chatVars>>

\* ------------------------------------------------------- the findings list
Min(a, b) == IF a < b THEN a ELSE b
Max(a, b) == IF a > b THEN a ELSE b

\* Array.prototype.slice(start, end) for start, end >= 0.
Slice(s, start, end) ==
    IF start >= Len(s) THEN <<>> ELSE SubSeq(s, start + 1, Min(end, Len(s)))

\* Array.prototype.filter with finding.category === cat.
FilterByCategory(fs, cat) == SelectSeq(fs, LAMBDA f : f.category = cat)

\* ['all', ...new Set(findings.map(f => f.category))]
Categories(fs) == {"all"} \cup {fs[i].category : i \in 1..Len(fs)}

\* Variant of FilteredFindings: an unknown category shows everything.
FilteredFindingsLenient(fs, cat) ==
    IF cat = "all" \/ FilterByCategory(fs, cat) = <<>> THEN fs ELSE FilterByCategory(fs, cat)

\* selectedCategory === 'all' ? findings : findings.filter(...)
FilteredFindings(fs, cat) == IF cat = "all" THEN fs ELSE FilterByCategory(fs, cat)

\* Math.ceil(filteredFindings.length / itemsPerPage)
TotalPagesOf(fl) ==
    (Len(fl) \div ItemsPerPage) + (IF Len(fl) % ItemsPerPage = 0 THEN 0 ELSE 1)

\* Variant of PageOf: the page number is taken as a 0-based index.
PageOfZeroBased(fl, cp) == Slice(fl, cp * ItemsPerPage, cp * ItemsPerPage + ItemsPerPage)

\* filteredFindings.slice(startIndex, endIndex) for the page numbered cp (1-based).
PageOf(fl, cp) ==
    LET startIndex == (cp - 1) * ItemsPerPage
        endIndex == startIndex + ItemsPerPage
    IN  Slice(fl, startIndex, endIndex)

TotalPages == TotalPagesOf(FilteredFindings(findingsQ.data, selectedCategory))
PaginatedFindings == PageOf(FilteredFindings(findingsQ.data, selectedCategory), currentPage)

\* The results view (findings list, refresh button, chat) is rendered.
ResultsShown == page = "analysis" /\ ~UploadInterfaceShown

\* A category button: setSelectedCategory(category); setCurrentPage(1).
SelectCategory(c) ==
    /\ ResultsShown
    /\ c \in Categories(findingsQ.data)
    /\ selectedCategory' = c
    /\ currentPage' = 1
    /\ UNCHANGED <<homeVars, analysisState, currentFile, selectedFinding, processSteps,
                   analysisProgress, netVars, toast, hist, chatVars>>

\* "Next" (rendered when totalPages > 1, disabled on the last page).
NextPage ==
    /\ ResultsShown
    /\ TotalPages > 1
    /\ currentPage # TotalPages
    /\ currentPage' = Min(currentPage + 1, TotalPages)
    /\ UNCHANGED <<homeVars, analysisState, currentFile, selectedFinding, selectedCategory,
                   processSteps, analysisProgress, netVars, toast, hist, chatVars>>

\* "Previous" (rendered when totalPages > 1, disabled on page 1).
PreviousPage ==
    /\ ResultsShown
    /\ TotalPages > 1
    /\ currentPage # 1
    /\ currentPage' = Max(currentPage - 1, 1)
    /\ UNCHANGED <<homeVars, analysisState, currentFile, selectedFinding, selectedCategory,
                   processSteps, analysisProgress, netVars, toast, hist, chatVars>>

\* Findings lists of n entries the service may return for document 1, whose
\* file has DocumentPages pages: of one category, or of three categories in
\* turn; their page numbers run through the pages of the file, or are all off
\* by one page down or up (then one of them names page 0 or the page after
\* the last).
DocumentPages == CHOOSE n \in PageCounts : TRUE
CategoryMixes == {<<"EXCLUSION">>, <<"EXCLUSION", "DEDUCTIBLE", "LIMITATION">>}
PageShifts == {0 - 1, 0, 1}
FindingList(n, mix, shift) ==
    [i \in 1..n |-> [id |-> 100 + i, category |-> mix[((i - 1) % Len(mix)) + 1],
                     page_num |-> ((i - 1) % DocumentPages) + 1 + shift]]

\* The results view of a completed analysis of document 1 whose findings, any
\* number up to MaxFindings, are loaded.
ListInit ==
    /\ page = "analysis"
    /\ storedFile = NoFile
    /\ analysisState = [documentId |-> 1, filename |-> "exact.pdf", isUploading |-> FALSE,
                        isAnalyzing |-> FALSE]
    /\ currentFile \in {f \in Files : f.name = "exact.pdf"}
    /\ selectedFinding = NoFinding
    /\ selectedCategory = "all"
    /\ currentPage = 1
    /\ \E n \in 0..MaxFindings, mix \in CategoryMixes, shift \in PageShifts :
          /\ findingsQ = [data |-> FindingList(n, mix, shift), fetching |-> FALSE,
                          error |-> FALSE]
          /\ processSteps =
               << Step("upload-start", "completed", 0),
                  Step("text-extraction", "completed", DocumentPages),
                  Step("analysis", "completed", 0) >>
               \o (IF n > 0 THEN <<Step("findings-loaded", "completed", 0)>> ELSE <<>>)
    /\ analysisProgress = 100
    /\ uploadReq = NoReq
    /\ staleUploads = 0
    /\ orphans = {}
    /\ apiUrl = NoEnv
    /\ sent = <<>>
    /\ statusQ = [data |-> "completed", fetching |-> FALSE, resp |-> NoData]
    /\ progressQ = [data |-> [status |-> "pending", progress |-> 10], fetching |-> FALSE,
                    resp |-> NoData]
    /\ docStatus = [d \in 1..MaxUploads |-> IF d = 1 THEN "completed" ELSE "none"]
    /\ toast = [title |-> "Upload successful!",
                description |-> "Your document is being analyzed. This may take a few minutes."]
    /\ hist = [HistInitial EXCEPT !.submits = 1, !.ingests = 1, !.findingsAt = {"completed"}]
    /\ ChatInitial

ListNext ==
    \/ \E c \in Categories(findingsQ.data) : SelectCategory(c)
    \/ NextPage
    \/ PreviousPage

ListSpec == ListInit /\ [][ListNext]_vars

\* ------------------------------------------------ the findings list, reloaded
\* GET /findings/{d} answered with whatever list the service holds for the
\* document at that moment.
FindingsReloaded ==
    \E n \in 0..MaxFindings, mix \in CategoryMixes, shift \in PageShifts :
        FindingsAnswered(FindingList(n, mix, shift))

\* The results view with the refresh button in use.
ReloadNext ==
    \/ \E c \in Categories(findingsQ.data) : SelectCategory(c)
    \/ NextPage
    \/ PreviousPage
    \/ ManualRefresh
    \/ FindingsReloaded

ReloadSpec == ListInit /\ [][ReloadNext]_vars

\* ----------------------------------------------------------------- ChatPanel
ContextMessage(f) ==
    [id |-> <<"context", f.id>>, type |-> "bot",
     content |-> <<"Now discussing", f.category, f.page_num>>]

\* The findings the list renders: the cards of paginatedFindings.
ShownFindings == {PaginatedFindings[i] : i \in 1..Len(PaginatedFindings)}

\* Variant of SelectFinding: a switch of finding starts a fresh transcript.
SelectFindingFreshTranscript(f) ==
    /\ page = "analysis"
    /\ ~UploadInterfaceShown
    /\ f \in ShownFindings
    /\ selectedFinding' = f
    /\ IF f.id # currentFindingId
       THEN /\ Len(messages) + Len(chatReqs) < MaxMessages
            /\ currentFindingId' = f.id
            /\ messages' = <<ContextMessage(f)>>
       ELSE UNCHANGED <<currentFindingId, messages>>
    /\ UNCHANGED <<homeVars, analysisState, currentFile, listVars, processSteps, analysisProgress,
                   netVars, toast, hist, inputValue, isLoading, chatReqs, now>>

\* Click on a finding card: setSelectedFinding; ChatPanel renders with the new
\* finding prop and its effect binds the finding and appends a context message.
SelectFinding(f) ==
    /\ page = "analysis"
    /\ ~UploadInterfaceShown
    /\ f \in ShownFindings
    /\ selectedFinding' = f
    /\ IF f.id # currentFindingId
       THEN /\ Len(messages) + Len(chatReqs) < MaxMessages
            /\ currentFindingId' = f.id
            /\ messages' = Append(messages, ContextMessage(f))
       ELSE UNCHANGED <<currentFindingId, messages>>
    /\ UNCHANGED <<homeVars, analysisState, currentFile, listVars, processSteps, analysisProgress,
                   netVars, toast, hist, inputValue, isLoading, chatReqs, now>>

\* The polling queries, and whether the mounted page has a request of one in flight.
PollKinds == {"status", "progress"}
PollInFlight(k) == IF k = "status" THEN statusQ.fetching ELSE progressQ.fetching

\* Variant of OrphanResponse: the answer is applied by a callback that does not
\* look at whether its page is still there.
OrphanResponseApplied(k) ==
    /\ k \in orphans
    /\ orphans' = orphans \ {k}
    /\ UNCHANGED urlVars
    /\ \E st \in ServerStatuses :
          IF k = "status"
          THEN StatusEffect(st)
          ELSE ProgressEffect(st) /\ analysisState' = analysisState
    /\ hist' = IF page = "analysis" THEN [hist EXCEPT !.discards = Inc(@, Cardinality(PollKinds))]
                ELSE hist
    /\ UNCHANGED <<homeVars, currentFile, selectedFinding, listVars, uploadReq, staleUploads, statusQ,
                   progressQ, findingsQ, docStatus, toast, chatVars>>

\* The answer to a poll whose page was left arrives: its query has no observer
\* and the component that held the lifecycle state is gone, so nothing of the
\* page changes (the answer only enters the cache entry of the old document).
OrphanResponse(k) ==
    /\ k \in orphans
    /\ orphans' = orphans \ {k}
    /\ UNCHANGED urlVars
    /\ hist' = IF page = "analysis" THEN [hist EXCEPT !.discards = Inc(@, Cardinality(PollKinds))]
                ELSE hist
    /\ UNCHANGED <<homeVars, analysisVars, uploadReq, staleUploads, statusQ, progressQ,
                   findingsQ, docStatus, toast, chatVars>>

\* "Back to Home": Analysis and ChatPanel unmount and their state is gone; the
\* queries lose their observer and their interval; requests in flight stay on
\* the wire.  The counters kept per watched document start over.
BackToHome ==
    /\ page = "analysis"
    /\ page' = "home"
    /\ analysisState' = AnalysisInitial
    /\ currentFile' = NoFile
    /\ selectedFinding' = NoFinding
    /\ selectedCategory' = "all"
    /\ currentPage' = 1
    /\ processSteps' = <<>>
    /\ analysisProgress' = 0
    /\ uploadReq' = NoReq
    /\ staleUploads' = IF uploadReq # NoReq THEN staleUploads + 1 ELSE staleUploads
    /\ orphans' = orphans \cup {k \in PollKinds : PollInFlight(k)}
    /\ UNCHANGED urlVars
    /\ statusQ' = IdleStatusQ
    /\ progressQ' = IdleProgressQ
    /\ findingsQ' = IdleFindingsQ
    /\ hist' = [hist EXCEPT !.postTermStatus = 0, !.postTermProgress = 0, !.findingsAt = {},
                             !.discards = 0]
    /\ inputValue' = <<>>
    /\ messages' = <<>>
    /\ currentFindingId' = 0
    /\ isLoading' = FALSE
    /\ chatReqs' = <<>>
    /\ docStatus' = [d \in 1..MaxUploads |->
                        IF docStatus[d] = "none" THEN "none" ELSE Unwatched]
    /\ UNCHANGED <<storedFile, toast, now>>

Next ==
    \/ \E file \in Files : HomeSubmit(file)
    \/ GoToAnalysis
    \/ \E file \in Files : AnalysisSubmit(file)
    \/ \E pages \in PageCounts : UploadSuccess(pages)
    \/ \E err \in UploadErrors : UploadFailure(err)
    \/ \E ok \in BOOLEAN, err \in UploadErrors : StaleUploadDone(ok, err)
    \/ \E d \in 1..MaxUploads, st \in ServerStatuses : ServerAdvance(d, st)
    \/ StatusTick
    \/ StatusResponse
    \/ StatusFailure
    \/ ProgressTick
    \/ ProgressResponse
    \/ ProgressFailure
    \/ FindingsResponse
    \/ FindingsFailure
    \/ ManualRefresh
    \/ BackToHome
    \/ \E k \in PollKinds : OrphanResponse(k)

Spec == Init /\ [][Next]_vars

\* ------------------------------------------------- status endpoint unreachable
\* The program while GET /analysis/{id} cannot be answered: every status fetch
\* fails with its retries; everything else goes on as in Next.
StatusOutageNext ==
    \/ \E file \in Files : HomeSubmit(file)
    \/ GoToAnalysis
    \/ \E file \in Files : AnalysisSubmit(file)
    \/ \E pages \in PageCounts : UploadSuccess(pages)
    \/ \E err \in UploadErrors : UploadFailure(err)
    \/ \E ok \in BOOLEAN, err \in UploadErrors : StaleUploadDone(ok, err)
    \/ \E d \in 1..MaxUploads, st \in ServerStatuses : ServerAdvance(d, st)
    \/ StatusTick
    \/ StatusFailure
    \/ ProgressTick
    \/ ProgressResponse
    \/ ProgressFailure
    \/ FindingsResponse
    \/ FindingsFailure
    \/ ManualRefresh
    \/ BackToHome
    \/ \E k \in PollKinds : OrphanResponse(k)

\* What runs without the user: the interval timers fire, and a request on the
\* wire ends (the axios timeout bounds it).
PollFairness ==
    /\ WF_vars(StatusTick)
    /\ WF_vars(StatusFailure)
    /\ WF_vars(ProgressTick)
    /\ WF_vars(ProgressResponse)
    /\ WF_vars(FindingsResponse)
    /\ WF_vars(\E pages \in PageCounts : UploadSuccess(pages))

StatusOutageSpec == Init /\ [][StatusOutageNext]_vars /\ PollFairness

\* ------------------------------------------------ a service off its contract
\* Status strings a service may send: the four of the contract, and strings
\* outside it (another word, other letter case).
RemoteStatuses == ServerStatuses \cup {"queued", "Completed", "FAILED"}

\* The job of the watched document reports any of these strings, until it
\* has reported completed or failed.
ServerReports(st) ==
    /\ analysisState.documentId # NoDoc
    /\ docStatus[analysisState.documentId] \notin TerminalStatuses \cup {st}
    /\ docStatus' = [docStatus EXCEPT ![analysisState.documentId] = st]
    /\ UNCHANGED <<homeVars, analysisVars, uploadReq, staleUploads, orphans, urlVars, statusQ, progressQ,
                   findingsQ, toast, hist, chatVars>>

\* The analysis page right after the upload of exact.pdf was answered (a state
\* Spec reaches: AnalyzingInitReached).
AnalyzingInit ==
    /\ page = "analysis"
    /\ storedFile = NoFile
    /\ analysisState = [documentId |-> 1, filename |-> "exact.pdf", isUploading |-> FALSE,
                        isAnalyzing |-> TRUE]
    /\ currentFile \in {f \in Files : f.name = "exact.pdf"}
    /\ selectedFinding = NoFinding
    /\ selectedCategory = "all"
    /\ currentPage = 1
    /\ processSteps = << Step("upload-start", "completed", 0),
                         Step("text-extraction", "completed", 12),
                         Step("analysis", "in-progress", 0) >>
    /\ analysisProgress = 25
    /\ uploadReq = NoReq
    /\ staleUploads = 0
    /\ orphans = {}
    /\ apiUrl = NoEnv
    /\ sent = <<>>
    /\ statusQ = IssueStatus(IdleStatusQ, "pending")
    /\ progressQ = IssueProgress(IdleProgressQ, "pending")
    /\ findingsQ = IdleFindingsQ
    /\ docStatus = [d \in 1..MaxUploads |-> IF d = 1 THEN "pending" ELSE "none"]
    /\ toast = [title |-> "Upload successful!",
                description |-> "Your document is being analyzed. This may take a few minutes."]
    /\ hist = [HistInitial EXCEPT !.submits = 1, !.ingests = 1]
    /\ ChatInitial

AnalyzingInitReached == ~AnalyzingInit

StatusMapNext ==
    \/ \E st \in RemoteStatuses : ServerReports(st)
    \/ StatusTick
    \/ StatusResponse
    \/ ProgressTick
    \/ ProgressResponse
    \/ FindingsResponse

StatusMapSpec == AnalyzingInit /\ [][StatusMapNext]_vars

\* ---------------------------------------------------------- ChatPanel: send
ChatPanelMounted == page = "analysis" /\ ~UploadInterfaceShown /\ selectedFinding # NoFinding

\* The input field (disabled while isLoading): onChange sets inputValue.
TypeInput(v) ==
    /\ ChatPanelMounted
    /\ ~isLoading
    /\ inputValue' = v
    /\ UNCHANGED <<homeVars, analysisVars, netVars, toast, hist, messages, currentFindingId,
                   isLoading, chatReqs, now>>

\* apiService.sendChatMessage(findingId, question)
ChatRequest(findingId, question) ==
    [path |-> <<"findings", findingId, "chat">>, q |-> question]

\* Variant of SendMessage: the busy flag is not set.
SendMessageNoBusyFlag ==
    /\ ChatPanelMounted
    /\ IF Trim(inputValue) = <<>> \/ isLoading
       THEN UNCHANGED <<messages, inputValue, chatReqs>>
       ELSE /\ Len(messages) + 2 <= MaxMessages
            /\ messages' = Append(messages, [id |-> <<"t", now>>, type |-> "user",
                                             content |-> inputValue])
            /\ inputValue' = <<>>
            /\ chatReqs' = Append(chatReqs, ChatRequest(selectedFinding.id, inputValue))
    /\ UNCHANGED <<homeVars, analysisVars, netVars, toast, hist, currentFindingId, isLoading, now>>

\* Variant of SendMessage: the handler keeps the finding of the first render.
SendMessageFirstFinding ==
    /\ ChatPanelMounted
    /\ IF Trim(inputValue) = <<>> \/ isLoading
       THEN UNCHANGED <<messages, inputValue, isLoading, chatReqs>>
       ELSE /\ Len(messages) + 2 <= MaxMessages
            /\ messages' = Append(messages, [id |-> <<"t", now>>, type |-> "user",
                                             content |-> inputValue])
            /\ inputValue' = <<>>
            /\ isLoading' = TRUE
            /\ chatReqs' = Append(chatReqs, ChatRequest(messages[1].id[2], inputValue))
    /\ UNCHANGED <<homeVars, analysisVars, netVars, toast, hist, currentFindingId, now>>

\* handleSendMessage, called by the send button or the Enter key: returns at
\* once on blank input or while busy; otherwise appends the user message,
\* clears the input, sets the busy flag and posts the question for the finding
\* of the current render.
SendMessage ==
    /\ ChatPanelMounted
    /\ IF Trim(inputValue) = <<>> \/ isLoading
       THEN UNCHANGED <<messages, inputValue, isLoading, chatReqs>>
       ELSE /\ Len(messages) + 2 <= MaxMessages
            /\ messages' = Append(messages, [id |-> <<"t", now>>, type |-> "user",
                                             content |-> inputValue])
            /\ inputValue' = <<>>
            /\ isLoading' = TRUE
            /\ chatReqs' = Append(chatReqs, ChatRequest(selectedFinding.id, inputValue))
    /\ UNCHANGED <<homeVars, analysisVars, netVars, toast, hist, currentFindingId, now>>

\* The chat request is answered: the answer is appended, the busy flag cleared.
ChatSuccess ==
    /\ ChatPanelMounted
    /\ chatReqs # <<>>
    /\ chatReqs' = Tail(chatReqs)
    /\ messages' = Append(messages, [id |-> <<"t", now + 1>>, type |-> "bot",
                                     content |-> <<"answer">>])
    /\ isLoading' = FALSE
    /\ UNCHANGED <<homeVars, analysisVars, netVars, toast, hist, inputValue, currentFindingId, now>>

ChatFallback == <<"Sorry, I encountered an error while processing your question. Please try again.">>

\* Variant of ChatFailure: the failure is only notified, no message is appended.
ChatFailureSilent(detail) ==
    /\ ChatPanelMounted
    /\ chatReqs # <<>>
    /\ chatReqs' = Tail(chatReqs)
    /\ toast' = [title |-> "Chat Error",
                 description |-> IF Truthy(detail) THEN detail ELSE "Failed to send message"]
    /\ isLoading' = FALSE
    /\ UNCHANGED <<homeVars, analysisVars, netVars, hist, inputValue, messages,
                   currentFindingId, now>>

\* Variant of ChatFailure: the busy flag is cleared on success only.
ChatFailureStaysBusy(detail) ==
    /\ ChatPanelMounted
    /\ chatReqs # <<>>
    /\ chatReqs' = Tail(chatReqs)
    /\ messages' = Append(messages, [id |-> <<"t", now + 1>>, type |-> "bot",
                                     content |-> ChatFallback])
    /\ toast' = [title |-> "Chat Error",
                 description |-> IF Truthy(detail) THEN detail ELSE "Failed to send message"]
    /\ UNCHANGED <<homeVars, analysisVars, netVars, hist, inputValue, currentFindingId,
                   isLoading, now>>

\* The chat request fails: the fallback message is appended, a notification
\* shown, the busy flag cleared.
ChatFailure(detail) ==
    /\ ChatPanelMounted
    /\ chatReqs # <<>>
    /\ chatReqs' = Tail(chatReqs)
    /\ messages' = Append(messages, [id |-> <<"t", now + 1>>, type |-> "bot",
                                     content |-> ChatFallback])
    /\ toast' = [title |-> "Chat Error",
                 description |-> IF Truthy(detail) THEN detail ELSE "Failed to send message"]
    /\ isLoading' = FALSE
    /\ UNCHANGED <<homeVars, analysisVars, netVars, hist, inputValue, currentFindingId, now>>

\* Time passes.
ClockTick ==
    /\ now < MaxNow
    /\ now' = now + 1
    /\ UNCHANGED <<homeVars, analysisVars, netVars, toast, hist, inputValue, messages,
                   currentFindingId, isLoading, chatReqs>>

\* The results view of a completed analysis of document 1, before a finding is
\* selected (a state Spec reaches: ChatInitReached).
ChatInit ==
    /\ page = "analysis"
    /\ storedFile = NoFile
    /\ analysisState = [documentId |-> 1, filename |-> "exact.pdf", isUploading |-> FALSE,
                        isAnalyzing |-> FALSE]
    /\ currentFile \in {f \in Files : f.name = "exact.pdf"}
    /\ selectedFinding = NoFinding
    /\ selectedCategory = "all"
    /\ currentPage = 1
    /\ processSteps = << Step("upload-start", "completed", 0),
                         Step("text-extraction", "completed", 12),
                         Step("analysis", "completed", 0),
                         Step("findings-loaded", "completed", 0) >>
    /\ analysisProgress = 100
    /\ uploadReq = NoReq
    /\ staleUploads = 0
    /\ orphans = {}
    /\ apiUrl = NoEnv
    /\ sent = <<>>
    /\ statusQ = [data |-> "completed", fetching |-> FALSE, resp |-> NoData]
    /\ progressQ = [data |-> [status |-> "pending", progress |-> 10], fetching |-> FALSE,
                    resp |-> NoData]
    /\ findingsQ = [data |-> ServerFindings(1), fetching |-> FALSE, error |-> FALSE]
    /\ docStatus = [d \in 1..MaxUploads |-> IF d = 1 THEN "completed" ELSE "none"]
    /\ toast = [title |-> "Upload successful!",
                description |-> "Your document is being analyzed. This may take a few minutes."]
    /\ hist = [HistInitial EXCEPT !.submits = 1, !.ingests = 1, !.findingsAt = {"completed"}]
    /\ ChatInitial

ChatInitReached == ~ChatInit

ChatNext ==
    \/ \E f \in ShownFindings : SelectFinding(f)
    \/ \E v \in ChatInputs : TypeInput(v)
    \/ SendMessage
    \/ ChatSuccess
    \/ \E detail \in {NoDetail, "Finding not found"} : ChatFailure(detail)
    \/ ClockTick

ChatSpec == ChatInit /\ [][ChatNext]_vars

\* -------------------------------------------- a selection across reloads
\* GET /findings/{d} answered when the service holds only the first n of the
\* findings of the document.
FindingsDropped ==
    \E n \in 0..Len(ServerFindings(analysisState.documentId)) :
        FindingsAnswered(SubSeq(ServerFindings(analysisState.documentId), 1, n))

\* The results view: finding cards, the refresh button and the chat input.
SelectionNext ==
    \/ \E f \in ShownFindings : SelectFinding(f)
    \/ ManualRefresh
    \/ FindingsDropped
    \/ \E v \in ChatInputs : TypeInput(v)
    \/ SendMessage

SelectionSpec == ChatInit /\ [][SelectionNext]_vars

\* ---------------------------------------------------------- request URLs
\* Values of VITE_API_URL a build may have: none, empty, a service of its own.
ApiUrls == {NoEnv, "", "https://api.example.com", "http://localhost:7860"}

\* api.ts: the fallback of API_BASE_URL.
FallbackBaseUrl == "https://ai-insurance-document-analyzer-z7vbrtlu2-raykarrs-projects.vercel.app/"

\* const API_BASE_URL = import.meta.env.VITE_API_URL || '<fallback>'
ApiBaseUrl == IF apiUrl # NoEnv /\ apiUrl # "" THEN apiUrl ELSE FallbackBaseUrl

\* The requests of apiService: the path each method gives to axios.
ApiPaths ==
    {<<"ingest">>, <<"health">>}
      \cup {<<"analysis", d>> : d \in 1..MaxUploads}
      \cup {<<"progress", d>> : d \in 1..MaxUploads}
      \cup {<<"findings", d>> : d \in 1..MaxUploads}
      \cup {<<"findings", f.id, "chat">> : f \in ShownFindings}

\* A method of apiService sends its request through the axios instance
\* created with baseURL: API_BASE_URL.
ApiCall(path) ==
    /\ Len(sent) < MaxSent
    /\ sent' = Append(sent, [base |-> ApiBaseUrl, path |-> path])
    /\ UNCHANGED <<homeVars, analysisVars, uploadReq, staleUploads, orphans, apiUrl, statusQ,
                   progressQ, findingsQ, docStatus, toast, hist, chatVars>>

\* PDFViewer: fetch(pdfUrl) of the effect on documentId, with
\* pdfUrl = `http://localhost:7860/documents/${documentId}/pdf...`.
PdfFetch ==
    /\ ResultsShown
    /\ analysisState.documentId # NoDoc
    /\ Len(sent) < MaxSent
    /\ sent' = Append(sent, [base |-> "http://localhost:7860",
                             path |-> <<"documents", analysisState.documentId, "pdf">>])
    /\ UNCHANGED <<homeVars, analysisVars, uploadReq, staleUploads, orphans, apiUrl, statusQ,
                   progressQ, findingsQ, docStatus, toast, hist, chatVars>>

\* The results view of a completed analysis of document 1 in a build with any
\* of the values of VITE_API_URL.
UrlInit ==
    /\ apiUrl \in ApiUrls
    /\ sent = <<>>
    /\ page = "analysis"
    /\ storedFile = NoFile
    /\ analysisState = [documentId |-> 1, filename |-> "exact.pdf", isUploading |-> FALSE,
                        isAnalyzing |-> FALSE]
    /\ currentFile \in {f \in Files : f.name = "exact.pdf"}
    /\ selectedFinding = NoFinding
    /\ selectedCategory = "all"
    /\ currentPage = 1
    /\ processSteps = << Step("upload-start", "completed", 0),
                         Step("text-extraction", "completed", 12),
                         Step("analysis", "completed", 0),
                         Step("findings-loaded", "completed", 0) >>
    /\ analysisProgress = 100
    /\ uploadReq = NoReq
    /\ staleUploads = 0
    /\ orphans = {}
    /\ statusQ = [data |-> "completed", fetching |-> FALSE, resp |-> NoData]
    /\ progressQ = [data |-> [status |-> "pending", progress |-> 10], fetching |-> FALSE,
                    resp |-> NoData]
    /\ findingsQ = [data |-> ServerFindings(1), fetching |-> FALSE, error |-> FALSE]
    /\ docStatus = [d \in 1..MaxUploads |-> IF d = 1 THEN "completed" ELSE "none"]
    /\ toast = [title |-> "Upload successful!",
                description |-> "Your document is being analyzed. This may take a few minutes."]
    /\ hist = [HistInitial EXCEPT !.submits = 1, !.ingests = 1, !.findingsAt = {"completed"}]
    /\ ChatInitial

UrlNext ==
    \/ \E path \in ApiPaths : ApiCall(path)
    \/ PdfFetch

UrlSpec == UrlInit /\ [][UrlNext]_vars

\* ===================================================================== claims
\* A file the upload must refuse: its content type does not contain "pdf", or
\* it is larger than 10 MB.
Rejectable(f) == ~Includes(f.type, <<"p", "d", "f">>) \/ f.size > 10485760

RejectionTitles == {"Invalid file type", "File too large"}

\* C1: a submit, on the home page or on the analysis page, of a file that is
\* not a PDF or is larger than 10 MB ends with a rejection notification and
\* issues no POST /ingest; a submit of any other file, the PDF of exactly
\* 10 MB among them, issues the upload of that file.
C1_RejectedWithoutUpload ==
    [][\A f \in Files :
          (HomeSubmit(f) \/ AnalysisSubmit(f)) =>
             IF Rejectable(f)
             THEN /\ toast'.title \in RejectionTitles
                  /\ hist'.ingests = hist.ingests
                  /\ uploadReq' = uploadReq
             ELSE /\ hist'.ingests = hist.ingests + 1
                  /\ uploadReq' # NoReq
                  /\ uploadReq'.file = f]_vars

\* C1 witness: the PDF of 10 MB + 1 byte was refused on the analysis page and
\* nothing was uploaded.
C1_Witness ==
    /\ page = "analysis"
    /\ currentFile # NoFile
    /\ currentFile.size = TenMB + 1
    /\ toast.title = "File too large"
    /\ uploadReq = NoReq
    /\ hist.ingests = 0

\* C2 (as claimed): after a terminal status was observed for a document, at
\* most one further status request and one further progress request is issued
\* for it.
C2_PollingCeases == hist.postTermStatus <= 1 /\ hist.postTermProgress <= 1

\* C3: once the client holds completed or failed for a document, it holds a
\* terminal status for that document in every later state.
C3_StatusNeverRegresses ==
    [][(/\ statusQ.data \in TerminalStatuses
        /\ analysisState'.documentId = analysisState.documentId)
          => statusQ'.data \in TerminalStatuses]_vars

\* C3 witness: completed is held and a later status request was issued and has ended.
C3_Witness ==
    /\ statusQ.data = "completed"
    /\ hist.postTermStatus >= 1
    /\ ~statusQ.fetching

\* C4 (as claimed): every GET /findings is issued while the status held for
\* the document is completed.
C4_FindingsOnlyWhenCompleted == hist.findingsAt \subseteq {"completed"}

\* The step in which the answer to POST /ingest reaches the mounted page.
UploadAnswered == uploadReq # NoReq /\ uploadReq' = NoReq /\ docStatus' # docStatus

\* The step in which POST /ingest fails for the mounted page.
UploadFailed ==
    uploadReq # NoReq /\ uploadReq' = NoReq /\ docStatus' = docStatus /\ page' = page

\* C5: a submit that passes validation sets isUploading and issues the upload;
\* the answer sets isUploading false and isAnalyzing true and records the
\* document id and filename in analysisState and the page count in the
\* text-extraction step.
C5_UploadingThenAnalyzing ==
    [][/\ hist'.submits > hist.submits =>
            /\ analysisState'.isUploading
            /\ ~analysisState'.isAnalyzing
            /\ analysisState'.documentId = NoDoc
            /\ uploadReq' # NoReq
            /\ hist'.ingests = hist.ingests + 1
       /\ UploadAnswered =>
            /\ analysisState.isUploading
            /\ ~analysisState'.isUploading
            /\ analysisState'.isAnalyzing
            /\ analysisState'.documentId \in 1..MaxUploads
            /\ docStatus[analysisState'.documentId] = "none"
            /\ docStatus'[analysisState'.documentId] = "pending"
            /\ analysisState'.filename = uploadReq.file.name
            /\ \E i \in 1..Len(processSteps'), n \in PageCounts :
                  processSteps'[i] = [id |-> "text-extraction", status |-> "completed", pages |-> n]]_vars

\* C5 witness: the upload of exact.pdf was answered and the page is analyzing.
C5_Witness ==
    /\ analysisState.isAnalyzing
    /\ ~analysisState.isUploading
    /\ analysisState.documentId = 1
    /\ analysisState.filename = "exact.pdf"

\* C6: when POST /ingest fails, isUploading is false again, isAnalyzing is
\* false, no document id is recorded, and the notification carries the
\* server's detail when the response has a non-empty one, else a non-empty
\* generic message (the error's own message or the fixed text).
C6_UploadFailureToIdle ==
    [][\A err \in UploadErrors :
          UploadFailure(err) =>
             /\ UploadFailed
             /\ ~analysisState'.isUploading
             /\ ~analysisState'.isAnalyzing
             /\ analysisState'.documentId = NoDoc
             /\ toast'.title = "Upload failed"
             /\ IF err.detail \notin {NoDetail, ""}
                THEN toast'.description = err.detail
                ELSE /\ toast'.description \in {err.message, "Failed to upload document"}
                     /\ toast'.description # ""]_vars

\* C6 witness: an upload failed with a server detail and the page left the
\* uploading phase.
C6_Witness ==
    /\ page = "analysis"
    /\ toast = [title |-> "Upload failed", description |-> "File too large for server"]
    /\ currentFile # NoFile
    /\ ~analysisState.isUploading
    /\ analysisState.documentId = NoDoc

\* C7: as many POST /ingest requests were issued as submits passed validation
\* (none is retried), and the file handed over through fileState is cleared.
C7_OneIngestPerSubmit ==
    /\ hist.ingests = hist.submits
    /\ storedFile = NoFile
    /\ uploadReq # NoReq => uploadReq.failures = 0

\* C7 witness: a file handed over from the home page was uploaded, the upload
\* failed, and the user is back on the home page with nothing sent again.
C7_Witness ==
    /\ page = "home"
    /\ hist.submits = 1
    /\ hist.ingests = 1
    /\ toast.title = "Upload failed"
    /\ uploadReq = NoReq
    /\ staleUploads = 0

\* A submit action is offered: the home page or the upload interface is shown.
SubmitOffered == page = "home" \/ UploadInterfaceShown

\* C8 (as claimed): after an upload failure, and after the status failed was
\* observed, a submit action is offered in that state.
C8_ResubmitOffered ==
    (\/ \E i \in 1..Len(processSteps) :
           processSteps[i] = [id |-> "upload-start", status |-> "error", pages |-> 0]
     \/ statusQ.data = "failed")
      => SubmitOffered

IsReply(m) == m.type = "bot" /\ m.id[1] = "t"
Count(seq, P(_)) == Cardinality({i \in 1..Len(seq) : P(seq[i])})
IsUser(m) == m.type = "user"

C10_ScopedToSelected ==
    [][Len(chatReqs') > Len(chatReqs) =>
          /\ chatReqs'[Len(chatReqs')].path = <<"findings", selectedFinding.id, "chat">>
          /\ chatReqs'[Len(chatReqs')].q = inputValue]_vars

\* C10 witness: finding 11 was selected, then finding 12, and the question in
\* flight goes to finding 12.
C10_Witness ==
    /\ Len(messages) >= 3
    /\ messages[1].id = <<"context", 11>>
    /\ messages[2].id = <<"context", 12>>
    /\ Len(chatReqs) = 1
    /\ chatReqs[1].path = <<"findings", 12, "chat">>

IsPrefix(s, t) == Len(s) <= Len(t) /\ SubSeq(t, 1, Len(s)) = s

\* C11: the transcript is append-only across finding switches: every step
\* keeps the earlier messages in place; a click on a finding whose id differs
\* from the bound id appends exactly one assistant context message for that
\* finding and binds it; a click on the bound finding changes nothing.
C11_TranscriptAppendOnly ==
    [][/\ IsPrefix(messages, messages')
       /\ \A f \in ShownFindings :
             SelectFinding(f) =>
                IF f.id # currentFindingId
                THEN /\ Len(messages') = Len(messages) + 1
                     /\ messages'[Len(messages')].type = "bot"
                     /\ messages'[Len(messages')].id = <<"context", f.id>>
                     /\ currentFindingId' = f.id
                ELSE messages' = messages /\ currentFindingId' = currentFindingId]_vars

\* C11 witness: finding 11 was discussed (context message, question, answer)
\* and finding 12 was selected after it: its context message follows them.
C11_Witness ==
    /\ Len(messages) = 4
    /\ messages[1].id = <<"context", 11>>
    /\ messages[2].type = "user"
    /\ messages[3].type = "bot"
    /\ messages[4].id = <<"context", 12>>
    /\ currentFindingId = 12

\* The step in which a chat request is issued / in which the one in flight ends.
ChatIssued == Len(chatReqs') > Len(chatReqs)
ChatCompleted == chatReqs # <<>> /\ chatReqs' = Tail(chatReqs)

\* C12: an accepted send appends the user message (the text typed) and issues
\* exactly one chat request in the same step; the step in which the request
\* ends issues no request again and appends exactly one assistant message: the
\* server's answer, or the fixed fallback text together with a "Chat Error"
\* notification.
C12_SendAppendsThenReplies ==
    [][/\ ChatIssued =>
            /\ chatReqs' = Append(chatReqs, ChatRequest(selectedFinding.id, inputValue))
            /\ Len(messages') = Len(messages) + 1
            /\ messages'[Len(messages')].type = "user"
            /\ messages'[Len(messages')].content = inputValue
       /\ ChatCompleted =>
            /\ Len(messages') = Len(messages) + 1
            /\ IsPrefix(messages, messages')
            /\ messages'[Len(messages')].type = "bot"
            /\ \/ /\ messages'[Len(messages')].content = <<"answer">>
                  /\ toast' = toast
               \/ /\ messages'[Len(messages')].content = ChatFallback
                  /\ toast'.title = "Chat Error"]_vars

\* C12 witness: a question was sent, its request failed, and the fallback
\* message follows the question with the error notification up.
C12_Witness ==
    /\ Len(messages) = 3
    /\ messages[2].type = "user"
    /\ messages[3].content = ChatFallback
    /\ toast.title = "Chat Error"
    /\ chatReqs = <<>>

\* C13: the step in which a chat request ends, with an answer or with a
\* failure, leaves the busy flag cleared; and with the busy flag cleared a send
\* of a non-blank input is accepted: it issues a request.
C13_FailureDoesNotBlock ==
    [][/\ ChatCompleted => ~isLoading'
       /\ (~isLoading /\ Trim(inputValue) # <<>> /\ SendMessage) =>
             ChatIssued /\ isLoading']_vars

\* C13 witness: a send failed (fallback message in the transcript) and the
\* send after it is accepted and in flight.
C13_Witness ==
    /\ Len(messages) = 4
    /\ messages[3].content = ChatFallback
    /\ messages[4].type = "user"
    /\ isLoading
    /\ Len(chatReqs) = 1

\* The lifecycle state of the analysis page.
lifecycleVars == <<analysisState, processSteps, analysisProgress, statusQ, progressQ>>

\* C14: once the analysis page is left no poll is scheduled: while the home
\* page shows, no step issues a status or progress request; and the step in
\* which the answer to a poll of a page left arrives changes nothing of the
\* lifecycle state (status held, progress, process steps, phase flags), on the
\* home page as well as under a page mounted later.
C14_StoppedPollerIsSilent ==
    [][/\ page = "home" =>
            /\ ~(StatusTick \/ ProgressTick)
            /\ ~statusQ'.fetching /\ ~progressQ'.fetching
       /\ (orphans' # orphans /\ orphans' \subseteq orphans) =>
             UNCHANGED lifecycleVars]_vars

\* C14 witness: document 2 is being analyzed and the answers to both polls of
\* the page left before have arrived under it.
C14_Witness ==
    /\ page = "analysis"
    /\ analysisState.documentId = 2
    /\ analysisState.isAnalyzing
    /\ hist.discards = 2
    /\ orphans = {}
    /\ apiUrl = NoEnv
    /\ sent = <<>>

\* C15 (as claimed): while every status poll fails, the analyzing phase (the
\* spinner) ends at some time.
C15_PollOutageSurfaces == analysisState.isAnalyzing ~> ~analysisState.isAnalyzing

StepStatus(steps, id) == {steps[i].status : i \in {j \in 1..Len(steps) : steps[j].id = id}}

\* C16: the status held is compared by string equality with the four names.
\* An answer of the status or the progress endpoint with any other string
\* changes no phase flag, ends no process step, raises no error step and no
\* notification, and enables no findings fetch; a status answer that changes
\* the status held ends the analysis exactly when it is completed (step
\* completed) or failed (step error), and pending and analyzing leave the
\* phase as it is.
C16_StatusMappedByEquality ==
    [][/\ (StatusResponse /\ statusQ.resp \notin ServerStatuses) =>
             /\ statusQ'.data = statusQ.resp
             /\ UNCHANGED <<analysisState, processSteps, analysisProgress, toast>>
             /\ ~FindingsEnabled'
       /\ (ProgressResponse /\ progressQ.resp \notin ServerStatuses) =>
             UNCHANGED <<analysisState, processSteps, toast>>
       /\ (StatusResponse /\ statusQ.resp # statusQ.data /\ statusQ.resp \in ServerStatuses) =>
             CASE statusQ.resp = "completed" ->
                    /\ ~analysisState'.isAnalyzing
                    /\ StepStatus(processSteps', "analysis") = {"completed"}
                    /\ FindingsEnabled'
               [] statusQ.resp = "failed" ->
                    /\ ~analysisState'.isAnalyzing
                    /\ StepStatus(processSteps', "analysis") = {"error"}
               [] OTHER -> UNCHANGED <<analysisState, processSteps>>]_vars

\* C16 witness: the status endpoint answered "queued", the progress endpoint
\* "Completed", and the page is still in the analyzing phase with its analysis
\* step in progress.
C16_Witness ==
    /\ statusQ.data = "queued"
    /\ progressQ.data # NoProgress
    /\ progressQ.data.status = "Completed"
    /\ analysisState.isAnalyzing
    /\ StepStatus(processSteps, "analysis") = {"in-progress"}

\* The step in which a GET /findings of the mounted page is answered with a list.
FindingsLoaded ==
    findingsQ.fetching /\ ~findingsQ'.fetching /\ ~findingsQ'.error /\ page' = "analysis"

\* C17 (as claimed): a GET /findings that succeeds is issued once per
\* document: when one is answered, no list of that document is held yet.
C17_SingleFindingsFetch == [][FindingsLoaded => findingsQ.data = <<>>]_vars

\* The filtered list of the state, and the items a page of size 10 must hold.
Filtered == FilteredFindings(findingsQ.data, selectedCategory)
ExpectedPageLen(n, i) ==
    IF 10 * i >= n THEN 0 ELSE IF n - 10 * i > 10 THEN 10 ELSE n - 10 * i

\* C18: for the N filtered findings of any state of the list view, the page
\* count is the least p with 10 * p >= N; the page of 0-based index i holds
\* exactly the items 10*i+1 .. min(10*i+10, N) in order; the last page holds
\* N mod 10 items, 10 when N is a positive multiple of 10; an index at or past
\* the page count gives the empty sequence; and the page shown is the page of
\* index currentPage - 1.
C18_PageIsSliceOfFiltered ==
    LET N == Len(Filtered)
        p == TotalPagesOf(Filtered)
    IN  /\ 10 * p >= N
        /\ 10 * (p - 1) < N
        /\ p = TotalPages
        /\ \A i \in 0..MaxPageIndex :
              LET pg == PageOf(Filtered, i + 1) IN
              /\ Len(pg) = ExpectedPageLen(N, i)
              /\ \A k \in 1..Len(pg) : pg[k] = Filtered[10 * i + k]
              /\ i >= p => pg = <<>>
              /\ (p > 0 /\ i = p - 1) => Len(pg) = (IF N % 10 = 0 THEN 10 ELSE N % 10)
        /\ PaginatedFindings = PageOf(Filtered, currentPage)
        /\ currentPage - 1 \in 0..MaxPageIndex

\* C18 witness: 20 findings are loaded, unfiltered, and the second and last
\* page is shown with its 10 items.
C18_Witness ==
    /\ Len(findingsQ.data) = 20
    /\ selectedCategory = "all"
    /\ currentPage = 2
    /\ TotalPages = 2
    /\ Len(PaginatedFindings) = 10
    /\ PaginatedFindings[10] = findingsQ.data[20]

\* The k-th entry of fs, in order, whose category is cat.
NthOfCategory(fs, cat, k) ==
    LET idx == {i \in 1..Len(fs) : fs[i].category = cat}
    IN  fs[CHOOSE i \in idx : Cardinality({j \in idx : j < i}) = k - 1]

\* Categories a filter may name: those of the lists, and one no finding has.
FilterNames == {"EXCLUSION", "DEDUCTIBLE", "LIMITATION", "WAITING_PERIOD"}

\* C19: for the findings loaded in any state of the list view, the filter
\* 'all' gives the list itself, and the filter of any other category gives the
\* findings of that category, all of them, in their order in the list: the
\* empty sequence when there is none; and the list shown is filtered by the
\* selected category.
C19_FilterByCategory ==
    /\ FilteredFindings(findingsQ.data, "all") = findingsQ.data
    /\ \A cat \in FilterNames :
          LET r == FilteredFindings(findingsQ.data, cat)
              n == Cardinality({i \in 1..Len(findingsQ.data) : findingsQ.data[i].category = cat})
          IN  /\ Len(r) = n
              /\ \A k \in 1..n : r[k] = NthOfCategory(findingsQ.data, cat, k)
    /\ selectedCategory \in Categories(findingsQ.data)
    /\ \A k \in 1..Len(PaginatedFindings) :
          selectedCategory # "all" => PaginatedFindings[k].category = selectedCategory

\* C19 witness: 21 findings of three categories are loaded and filtered by
\* DEDUCTIBLE, which 7 of them have; no finding has WAITING_PERIOD.
C19_Witness ==
    /\ Len(findingsQ.data) = 21
    /\ selectedCategory = "DEDUCTIBLE"
    /\ Len(PaginatedFindings) = 7
    /\ PaginatedFindings[2] = findingsQ.data[5]
    /\ FilteredFindings(findingsQ.data, "WAITING_PERIOD") = <<>>

\* The page count of the watched document: IngestResponse.total_pages, which
\* the page keeps nowhere but in the text of its text-extraction step.
PagesOfDocument ==
    {processSteps[i].pages : i \in {j \in 1..Len(processSteps) : processSteps[j].id = "text-extraction"}}

\* C20 (as claimed): every finding on a card of the list has a page_num
\* between 1 and the page count of its document.
C20_ShownPageNumInRange ==
    \A f \in ShownFindings : \A total \in PagesOfDocument : f.page_num \in 1..total

\* C21 (as claimed): every request sent, the PDF fetch of the document viewer
\* included, goes to the configured base URL: VITE_API_URL when it is set,
\* else the fallback.
C21_OneBaseUrl == \A i \in 1..Len(sent) : sent[i].base = ApiBaseUrl

\* C22: the lifecycle is in one phase: isUploading and isAnalyzing are never
\* both true, and isAnalyzing is true only while a document id is recorded.
C22_OnePhase ==
    /\ ~(analysisState.isUploading /\ analysisState.isAnalyzing)
    /\ analysisState.isAnalyzing => analysisState.documentId # NoDoc

\* The analyzing phase entered from the uploading phase, on the second visit of
\* the analysis page.
C22_Witness ==
    /\ page = "analysis"
    /\ analysisState.isAnalyzing
    /\ ~analysisState.isUploading
    /\ analysisState.documentId = 2
    /\ hist.ingests = 2

\* The steps in which a GET /analysis/{d}, or a GET /progress/{d}, leaves for
\* the document of the mounted page.
StatusRequestIssued ==
    \/ StatusTick
    \/ ManualRefresh /\ ~JoinsFetch(statusQ)
    \/ \E p \in PageCounts : UploadSuccess(p)
ProgressRequestIssued == ProgressTick \/ \E p \in PageCounts : UploadSuccess(p)

C24_CompletedIsStable ==
    page = "analysis" /\ statusQ.data = "completed"
        => analysisProgress = 100 /\ StepStatus(processSteps, "analysis") = {"completed"}

\* A status, progress or findings request of the mounted page is on the wire.
PollOnTheWire == page = "analysis" /\ (statusQ.fetching \/ progressQ.fetching \/ findingsQ.fetching)

\* C25: a status, progress or findings request is issued only while a
\* document id is recorded, and it names the document that the upload of the
\* mounted page created (not one of an earlier visit, not one that does not
\* exist).
C25_PollsNameTheDocument ==
    PollOnTheWire =>
        /\ analysisState.documentId # NoDoc
        /\ docStatus[analysisState.documentId] \notin {"none", Unwatched}

\* All three requests on the wire for document 2, the document of the second
\* visit, while document 1 of the first visit exists.
C25_Witness ==
    /\ page = "analysis"
    /\ statusQ.fetching /\ progressQ.fetching /\ findingsQ.fetching
    /\ analysisState.documentId = 2
    /\ docStatus[1] = Unwatched

\* The step of a submit on the analysis page that validation rejects.
RejectedOnAnalysis ==
    UploadInterfaceShown /\ \E f \in Files : Validate(f) # "ok" /\ AnalysisSubmit(f)

\* C26 (as claimed): a submit rejected by validation on the analysis page
\* leaves the document id, the current file, the selected finding, the
\* process steps and the progress as they were, and the upload interface shown.
C26_RejectionChangesNothing ==
    [][RejectedOnAnalysis =>
          /\ UNCHANGED <<analysisState, currentFile, selectedFinding, processSteps,
                         analysisProgress>>
          /\ UploadInterfaceShown']_vars

\* C27 (as claimed): the page number is valid after any category changes,
\* Previous/Next clicks and findings loads: 1 <= currentPage <=
\* max(1, totalPages), so the page shown is empty only when the filtered list is.
C27_CurrentPageValid ==
    ResultsShown =>
        /\ 1 <= currentPage
        /\ currentPage <= Max(1, TotalPages)
        /\ PaginatedFindings = <<>> => Filtered = <<>>

\* C28 (as claimed): no context message enters the transcript while a send
\* is in flight: the message after a user message, if any, is the reply (or
\* the fallback) to it.
C28_ReplyFollowsQuestion ==
    \A i \in 1..(Len(messages) - 1) :
        messages[i].type = "user" => messages[i + 1].id[1] # "context"

\* C29 (as claimed): no two messages of a transcript have the same id.
C29_MessageIdsUnique ==
    \A i, j \in 1..Len(messages) : i # j => messages[i].id # messages[j].id

\* C30 (as claimed): the selected finding is null or an element of the
\* findings list loaded for the recorded document.
C30_SelectedFindingIsLoaded ==
    \/ selectedFinding = NoFinding
    \/ \E i \in 1..Len(findingsQ.data) : findingsQ.data[i] = selectedFinding

====
